---- MODULE Spec2Model ----
\* Lead Verification Service (main.py): the /isGenuineLead/ handler, its state
\* normaliser, and the event loop that runs the handler's coroutines.
\*
\* Representation.  A Python str is a sequence of one-character strings, so
\* that strip / lower / upper / capitalize / join are computed character by
\* character.  Python's None is the value None below, which is no str.  A JSON
\* object (and a details dict) is a function whose DOMAIN is the set of keys
\* that are present; a key whose Python value is None is left out of a details
\* dict.
EXTENDS Integers, Sequences, FiniteSets, TLC

\* ---------------------------------------------------------------- bounds
\* time_on_page ranges over 0..MaxTime
MaxTime == 4
\* number of requests the server model accepts
NReq == 2
\* longest run of whitespace put around a state token
MaxPad == 2
\* length of the (cyclically applied) upper/lower-case pattern
MaskLen == 3

\* ---------------------------------------------------------------- str
None == <<"None">>

UPPERCASE ==
    <<"A","B","C","D","E","F","G","H","I","J","K","L","M",
      "N","O","P","Q","R","S","T","U","V","W","X","Y","Z">>
LOWERCASE ==
    <<"a","b","c","d","e","f","g","h","i","j","k","l","m",
      "n","o","p","q","r","s","t","u","v","w","x","y","z">>
\* the ASCII characters str.strip() removes (vertical tab left out)
WHITESPACE == {" ", "\t", "\n", "\r", "\f"}

lower_char(c) ==
    IF \E i \in 1..Len(UPPERCASE) : UPPERCASE[i] = c
    THEN LOWERCASE[CHOOSE i \in 1..Len(UPPERCASE) : UPPERCASE[i] = c]
    ELSE c
upper_char(c) ==
    IF \E i \in 1..Len(LOWERCASE) : LOWERCASE[i] = c
    THEN UPPERCASE[CHOOSE i \in 1..Len(LOWERCASE) : LOWERCASE[i] = c]
    ELSE c
\* str.lower()
lower(s) == IF s = <<>> THEN <<>> ELSE [i \in 1..Len(s) |-> lower_char(s[i])]
\* str.upper()
upper(s) == IF s = <<>> THEN <<>> ELSE [i \in 1..Len(s) |-> upper_char(s[i])]
\* str.strip()
strip(s) ==
    LET keep == {i \in 1..Len(s) : s[i] \notin WHITESPACE}
        first == CHOOSE i \in keep : \A j \in keep : i <= j
        last == CHOOSE i \in keep : \A j \in keep : j <= i
    IN IF keep = {} THEN <<>> ELSE SubSeq(s, first, last)
\* str.capitalize()
capitalize(s) ==
    IF s = <<>> THEN <<>> ELSE <<upper_char(Head(s))>> \o lower(Tail(s))
\* sep.join(xs)
RECURSIVE join(_, _)
join(sep, xs) ==
    IF xs = <<>> THEN <<>>
    ELSE IF Len(xs) = 1 THEN Head(xs)
    ELSE Head(xs) \o sep \o join(sep, Tail(xs))
\* bool(v) of a str or None
truthy(v) == v # None /\ v # <<>>
\* dict.get(k, default)
dict_get(d, k, default) == IF k \in DOMAIN d THEN d[k] ELSE default
\* (mutant) an absent key read as set
flag_set_absent_is_true(d, k) == k \notin DOMAIN d \/ d[k] = TRUE
\* bool(d.get(k)) of a key that holds a JSON boolean
flag_set(d, k) == k \in DOMAIN d /\ d[k] = TRUE
\* the entries of d under the keys ks
restrict(d, ks) == [k \in (DOMAIN d) \cap ks |-> d[k]]

\* ---------------------------------------------------------------- tables
US_STATE_MAP ==
       (<<"A","L">> :> <<"A","l","a","b","a","m","a">>)
    @@ (<<"A","K">> :> <<"A","l","a","s","k","a">>)
    @@ (<<"A","Z">> :> <<"A","r","i","z","o","n","a">>)
    @@ (<<"A","R">> :> <<"A","r","k","a","n","s","a","s">>)
    @@ (<<"C","A">> :> <<"C","a","l","i","f","o","r","n","i","a">>)
    @@ (<<"C","O">> :> <<"C","o","l","o","r","a","d","o">>)
    @@ (<<"C","T">> :> <<"C","o","n","n","e","c","t","i","c","u","t">>)
    @@ (<<"D","E">> :> <<"D","e","l","a","w","a","r","e">>)
    @@ (<<"F","L">> :> <<"F","l","o","r","i","d","a">>)
    @@ (<<"G","A">> :> <<"G","e","o","r","g","i","a">>)
    @@ (<<"H","I">> :> <<"H","a","w","a","i","i">>)
    @@ (<<"I","D">> :> <<"I","d","a","h","o">>)
    @@ (<<"I","L">> :> <<"I","l","l","i","n","o","i","s">>)
    @@ (<<"I","N">> :> <<"I","n","d","i","a","n","a">>)
    @@ (<<"I","A">> :> <<"I","o","w","a">>)
    @@ (<<"K","S">> :> <<"K","a","n","s","a","s">>)
    @@ (<<"K","Y">> :> <<"K","e","n","t","u","c","k","y">>)
    @@ (<<"L","A">> :> <<"L","o","u","i","s","i","a","n","a">>)
    @@ (<<"M","E">> :> <<"M","a","i","n","e">>)
    @@ (<<"M","D">> :> <<"M","a","r","y","l","a","n","d">>)
    @@ (<<"M","A">> :> <<"M","a","s","s","a","c","h","u","s","e","t","t","s">>)
    @@ (<<"M","I">> :> <<"M","i","c","h","i","g","a","n">>)
    @@ (<<"M","N">> :> <<"M","i","n","n","e","s","o","t","a">>)
    @@ (<<"M","S">> :> <<"M","i","s","s","i","s","s","i","p","p","i">>)
    @@ (<<"M","O">> :> <<"M","i","s","s","o","u","r","i">>)
    @@ (<<"M","T">> :> <<"M","o","n","t","a","n","a">>)
    @@ (<<"N","E">> :> <<"N","e","b","r","a","s","k","a">>)
    @@ (<<"N","V">> :> <<"N","e","v","a","d","a">>)
    @@ (<<"N","H">> :> <<"N","e","w"," ","H","a","m","p","s","h","i","r","e">>)
    @@ (<<"N","J">> :> <<"N","e","w"," ","J","e","r","s","e","y">>)
    @@ (<<"N","M">> :> <<"N","e","w"," ","M","e","x","i","c","o">>)
    @@ (<<"N","Y">> :> <<"N","e","w"," ","Y","o","r","k">>)
    @@ (<<"N","C">> :> <<"N","o","r","t","h"," ","C","a","r","o","l","i","n","a">>)
    @@ (<<"N","D">> :> <<"N","o","r","t","h"," ","D","a","k","o","t","a">>)
    @@ (<<"O","H">> :> <<"O","h","i","o">>)
    @@ (<<"O","K">> :> <<"O","k","l","a","h","o","m","a">>)
    @@ (<<"O","R">> :> <<"O","r","e","g","o","n">>)
    @@ (<<"P","A">> :> <<"P","e","n","n","s","y","l","v","a","n","i","a">>)
    @@ (<<"R","I">> :> <<"R","h","o","d","e"," ","I","s","l","a","n","d">>)
    @@ (<<"S","C">> :> <<"S","o","u","t","h"," ","C","a","r","o","l","i","n","a">>)
    @@ (<<"S","D">> :> <<"S","o","u","t","h"," ","D","a","k","o","t","a">>)
    @@ (<<"T","N">> :> <<"T","e","n","n","e","s","s","e","e">>)
    @@ (<<"T","X">> :> <<"T","e","x","a","s">>)
    @@ (<<"U","T">> :> <<"U","t","a","h">>)
    @@ (<<"V","T">> :> <<"V","e","r","m","o","n","t">>)
    @@ (<<"V","A">> :> <<"V","i","r","g","i","n","i","a">>)
    @@ (<<"W","A">> :> <<"W","a","s","h","i","n","g","t","o","n">>)
    @@ (<<"W","V">> :> <<"W","e","s","t"," ","V","i","r","g","i","n","i","a">>)
    @@ (<<"W","I">> :> <<"W","i","s","c","o","n","s","i","n">>)
    @@ (<<"W","Y">> :> <<"W","y","o","m","i","n","g">>)
    @@ (<<"D","C">> :> <<"D","i","s","t","r","i","c","t"," ","o","f"," ","C","o","l","u","m","b","i","a">>)
US_STATE_FULL_NAMES_LOWER ==
    {lower(US_STATE_MAP[k]) : k \in DOMAIN US_STATE_MAP}
US_STATE_ABBREVIATIONS_LOWER ==
    {lower(k) : k \in DOMAIN US_STATE_MAP}

\* ---------------------------------------------------------------- literals
REASON_NO_CLIENT_IP ==
    <<"C","o","u","l","d"," ","n","o","t"," ","d","e","t","e","r","m","i","n","e"," ","c","l","i","e","n","t"," ","I","P"," ","a","d","d","r","e","s","s",".">>
REASON_LOW_TIME ==
    <<"L","o","w"," ","t","i","m","e"," ","o","n"," ","p","a","g","e",".">>
REQUIREMENT_TEXT ==
    <<">"," ","2"," ","s","e","c","o","n","d","s">>
PLACEHOLDER_API_KEY ==
    <<"Y","O","U","R","_","I","P","Q","U","A","L","I","T","Y","S","C","O","R","E","_","A","P","I","_","K","E","Y">>
REASON_NOT_CONFIGURED ==
    <<"I","P"," ","v","a","l","i","d","a","t","i","o","n"," ","s","e","r","v","i","c","e"," ","n","o","t"," ","c","o","n","f","i","g","u","r","e","d"," ","(","A","P","I"," ","k","e","y"," ","m","i","s","s","i","n","g",")","."," ","C","a","n","n","o","t"," ","v","e","r","i","f","y"," ","I","P","-","r","e","l","a","t","e","d"," ","c","r","i","t","e","r","i","a",".">>
PREFIX_VALIDATION_FAILED ==
    <<"I","P"," ","v","a","l","i","d","a","t","i","o","n"," ","f","a","i","l","e","d",":"," ">>
DEFAULT_ERROR_MESSAGE ==
    <<"U","n","k","n","o","w","n"," ","e","r","r","o","r"," ","f","r","o","m"," ","I","P","Q","u","a","l","i","t","y","S","c","o","r","e">>
REASON_TIMED_OUT ==
    <<"I","P"," ","v","a","l","i","d","a","t","i","o","n"," ","s","e","r","v","i","c","e"," ","t","i","m","e","d"," ","o","u","t",".">>
REASON_REQUEST_EXCEPTION ==
    <<"I","P"," ","v","a","l","i","d","a","t","i","o","n"," ","s","e","r","v","i","c","e"," ","r","e","q","u","e","s","t"," ","e","x","c","e","p","t","i","o","n",".">>
SUFFIX_DETECTED ==
    <<" ","d","e","t","e","c","t","e","d",".">>
JOIN_SEPARATOR ==
    <<","," ">>
WORD_PROXY ==
    <<"p","r","o","x","y">>
WORD_VPN ==
    <<"v","p","n">>
WORD_TOR ==
    <<"t","o","r">>
COUNTRY_US ==
    <<"U","S">>
REASON_NOT_US ==
    <<"I","P"," ","a","d","d","r","e","s","s"," ","i","s"," ","n","o","t"," ","f","r","o","m"," ","t","h","e"," ","U",".","S",".">>
REASON_INVALID_STATE ==
    <<"S","u","b","m","i","t","t","e","d"," ","s","t","a","t","e"," ","i","s"," ","n","o","t"," ","a"," ","v","a","l","i","d"," ","U",".","S","."," ","s","t","a","t","e"," ","n","a","m","e"," ","o","r"," ","a","b","b","r","e","v","i","a","t","i","o","n",".">>
REASON_GEO_MISMATCH ==
    <<"I","P"," ","a","d","d","r","e","s","s"," ","g","e","o","l","o","c","a","t","i","o","n"," ","(","s","t","a","t","e",")"," ","d","o","e","s"," ","n","o","t"," ","m","a","t","c","h"," ","s","u","b","m","i","t","t","e","d"," ","U",".","S","."," ","s","t","a","t","e",".">>
REASON_PASSED ==
    <<"L","e","a","d"," ","p","a","s","s","e","d"," ","a","l","l"," ","v","e","r","i","f","i","c","a","t","i","o","n"," ","c","h","e","c","k","s",".">>

\* ---------------------------------------------------------------- normalize_state
\* (mutant) the token is lowercased but not stripped
normalize_state_without_strip(submitted_state) ==
    LET s_lower == lower(submitted_state) IN
    IF s_lower \in US_STATE_FULL_NAMES_LOWER THEN s_lower
    ELSE IF s_lower \in US_STATE_ABBREVIATIONS_LOWER THEN
        LET full_name == dict_get(US_STATE_MAP, upper(s_lower), None)
        IN IF truthy(full_name) THEN lower(full_name) ELSE None
    ELSE None
normalize_state(submitted_state) ==
    LET s_lower == lower(strip(submitted_state)) IN
    IF s_lower \in US_STATE_FULL_NAMES_LOWER THEN s_lower
    ELSE IF s_lower \in US_STATE_ABBREVIATIONS_LOWER THEN
        LET full_name == dict_get(US_STATE_MAP, upper(s_lower), None)
        IN IF truthy(full_name) THEN lower(full_name) ELSE None
    ELSE None

\* ---------------------------------------------------------------- inputs
CLIENT_IPS == {<<>>, <<"1","7","3",".","5","6",".","2","1","3",".","2","6">>}
API_KEYS == {None, <<>>, PLACEHOLDER_API_KEY, <<"s","3","c","r","3","t">>}
USER_AGENTS == {<<"c","u","r","l","/","7",".","8","1",".","0">>}
SUBMITTED_STATES ==
    { <<"N","Y">>,
      <<" ","n","e","w"," ","y","o","r","k"," ">>,
      <<"C","a","l","i","f","o","r","n","i","a">>,
      <<"A","t","l","a","n","t","i","s">>,
      <<>> }
LEADS ==
    [submitted_state : SUBMITTED_STATES, time_on_page : 0..MaxTime,
     user_agent : USER_AGENTS]

\* what the reputation service may answer
COUNTRY_CODES == {COUNTRY_US, <<"C","A">>, <<"u","s">>}
REGIONS ==
    { <<"N","e","w"," ","Y","o","r","k">>,
      <<"C","A">>,
      <<"O","n","t","a","r","i","o">>,
      <<>> }
MESSAGES == {<<"I","n","v","a","l","i","d"," ","I","P"," ","a","d","d","r","e","s","s">>}
FRAUD_SCORES == {5}
IPQS_KEYS ==
    {"success", "message", "proxy", "vpn", "tor", "country_code", "region",
     "fraud_score"}
\* a field is absent ({}) or present with one value ({v})
Optional(S) == {{}} \cup {{v} : v \in S}
json_object(success, message, proxy, vpn, tor, country_code, region, fraud_score) ==
    LET field == [success |-> success, message |-> message, proxy |-> proxy,
                  vpn |-> vpn, tor |-> tor, country_code |-> country_code,
                  region |-> region, fraud_score |-> fraud_score]
    IN [k \in {f \in IPQS_KEYS : field[f] # {}} |-> CHOOSE v \in field[k] : TRUE]
JSON_OBJECTS ==
    { json_object(s, m, p, v, t, c, g, f) :
        s \in Optional(BOOLEAN), m \in Optional(MESSAGES),
        p \in Optional(BOOLEAN), v \in Optional(BOOLEAN),
        t \in Optional(BOOLEAN), c \in Optional(COUNTRY_CODES),
        g \in Optional(REGIONS), f \in Optional(FRAUD_SCORES) }
\* requests.get / raise_for_status / response.json either raise or hand back a
\* JSON value, which is an object or (is_object = FALSE) the array [].
\* ConnectTimeout and ReadTimeout derive from Timeout; ConnectionError,
\* HTTPError and the JSONDecodeError of response.json (requests >= 2.27) derive
\* from RequestException only.
TIMEOUT_ERRORS == {"ConnectTimeout", "ReadTimeout"}
OTHER_REQUEST_ERRORS == {"ConnectionError", "HTTPError", "JSONDecodeError"}
OUTCOMES ==
    [kind : {"raise"}, exc : TIMEOUT_ERRORS \cup OTHER_REQUEST_ERRORS]
    \cup [kind : {"json"}, is_object : {TRUE}, data : JSON_OBJECTS]
    \cup [kind : {"json"}, is_object : {FALSE}, data : {<<>>}]

\* ---------------------------------------------------------------- is_genuine_lead
LeadVerificationResponse(is_genuine, reason, details) ==
    [is_genuine |-> is_genuine, reason |-> reason, details |-> details]
Return(v) == [kind |-> "return", value |-> v]
Raise(e) == [kind |-> "raise", exc |-> e]
Call(req) == [kind |-> "call", request |-> req]
no_details == [k \in {} |-> TRUE]

\* isinstance(e, requests.exceptions.Timeout)
is_timeout(exc) == exc \in {"Timeout"} \cup TIMEOUT_ERRORS
\* isinstance(e, requests.exceptions.RequestException)
is_request_exception(exc) ==
    exc \in {"RequestException", "Timeout"} \cup TIMEOUT_ERRORS \cup OTHER_REQUEST_ERRORS

\* `not client_ip`
client_ip_missing(client_ip) == ~truthy(client_ip)
\* (mutant) the threshold compared with < instead of <=
low_time_on_page_strict(lead_data) == lead_data.time_on_page < 2
\* `lead_data.time_on_page <= 2`
low_time_on_page(lead_data) == lead_data.time_on_page <= 2
\* (mutant) the placeholder value taken for a credential
api_key_not_configured_ignoring_placeholder(api_key) == ~truthy(api_key)
\* `not IP_QUALITY_SCORE_API_KEY or IP_QUALITY_SCORE_API_KEY == "YOUR_..."`
api_key_not_configured(api_key) ==
    ~truthy(api_key) \/ api_key = PLACEHOLDER_API_KEY
\* (mutant) elif instead of if: only the first set flag is listed
detection_type_first_only(ipqs_data) ==
    IF flag_set(ipqs_data, "proxy") THEN <<WORD_PROXY>>
    ELSE IF flag_set(ipqs_data, "vpn") THEN <<WORD_VPN>>
    ELSE IF flag_set(ipqs_data, "tor") THEN <<WORD_TOR>>
    ELSE <<>>
\* the detection_type list
detection_type(ipqs_data) ==
    (IF flag_set(ipqs_data, "proxy") THEN <<WORD_PROXY>> ELSE <<>>)
    \o (IF flag_set(ipqs_data, "vpn") THEN <<WORD_VPN>> ELSE <<>>)
    \o (IF flag_set(ipqs_data, "tor") THEN <<WORD_TOR>> ELSE <<>>)

\* the handler from its first line to the requests.get call: a verdict, or the
\* outbound call it makes
is_genuine_lead_before_lookup(client_ip, lead_data, api_key) ==
    IF client_ip_missing(client_ip) THEN
        Return(LeadVerificationResponse(FALSE, REASON_NO_CLIENT_IP, no_details))
    ELSE IF low_time_on_page(lead_data) THEN
        Return(LeadVerificationResponse(FALSE, REASON_LOW_TIME,
            [time_on_page |-> lead_data.time_on_page,
             requirement |-> REQUIREMENT_TEXT]))
    ELSE IF api_key_not_configured(api_key) THEN
        Return(LeadVerificationResponse(FALSE, REASON_NOT_CONFIGURED,
            [client_ip |-> client_ip]))
    ELSE
        Call([api_key |-> api_key, ip_address |-> client_ip,
              params |-> [user_agent |-> lead_data.user_agent,
                          strictness |-> 1,
                          allow_public_access_points |-> <<"t","r","u","e">>],
              timeout |-> 10])

\* the handler from line 160 on, once ipqs_data is a successful JSON object
is_genuine_lead_checks(client_ip, lead_data, ipqs_data) ==
    LET ip_country_code == dict_get(ipqs_data, "country_code", None)
        ip_state_name == dict_get(ipqs_data, "region", None)
        normalized_submitted_state == normalize_state(lead_data.submitted_state)
        normalized_ip_state ==
            IF truthy(ip_state_name) THEN normalize_state(ip_state_name) ELSE None
    IN
    IF flag_set(ipqs_data, "proxy") \/ flag_set(ipqs_data, "vpn")
           \/ flag_set(ipqs_data, "tor") THEN
        LeadVerificationResponse(FALSE,
            capitalize(join(JOIN_SEPARATOR, detection_type(ipqs_data)))
                \o SUFFIX_DETECTED,
            [client_ip |-> client_ip]
                @@ restrict(ipqs_data, {"proxy", "vpn", "tor", "fraud_score"}))
    ELSE IF ip_country_code # COUNTRY_US THEN
        LeadVerificationResponse(FALSE, REASON_NOT_US,
            [client_ip |-> client_ip, ip_country |-> ip_country_code,
             ip_state |-> ip_state_name,
             submitted_state |-> lead_data.submitted_state])
    ELSE IF ~truthy(normalized_submitted_state) THEN
        LeadVerificationResponse(FALSE, REASON_INVALID_STATE,
            [client_ip |-> client_ip,
             submitted_state_raw |-> lead_data.submitted_state,
             ip_state_raw |-> ip_state_name])
    ELSE IF ~truthy(normalized_ip_state)
               \/ normalized_ip_state # normalized_submitted_state THEN
        LeadVerificationResponse(FALSE, REASON_GEO_MISMATCH,
            [client_ip |-> client_ip,
             ip_state_normalized |-> normalized_ip_state,
             submitted_state_normalized |-> normalized_submitted_state,
             ip_state_raw |-> ip_state_name,
             submitted_state_raw |-> lead_data.submitted_state])
    ELSE
        LeadVerificationResponse(TRUE, REASON_PASSED,
            [client_ip |-> client_ip,
             time_on_page |-> lead_data.time_on_page,
             ip_state |-> ip_state_name,
             submitted_state |-> lead_data.submitted_state]
                @@ restrict(ipqs_data, {"fraud_score"}))

\* (mutant) the success test placed after the anonymization check
is_genuine_lead_after_lookup_flags_first(client_ip, lead_data, outcome) ==
    IF outcome.kind = "raise" THEN
        IF is_timeout(outcome.exc) THEN
            Return(LeadVerificationResponse(FALSE, REASON_TIMED_OUT,
                [client_ip |-> client_ip]))
        ELSE IF is_request_exception(outcome.exc) THEN
            Return(LeadVerificationResponse(FALSE, REASON_REQUEST_EXCEPTION,
                [client_ip |-> client_ip, error |-> outcome.exc]))
        ELSE Raise(outcome.exc)
    ELSE IF ~outcome.is_object THEN
        Raise("AttributeError")
    ELSE IF flag_set(outcome.data, "proxy") \/ flag_set(outcome.data, "vpn")
               \/ flag_set(outcome.data, "tor") THEN
        Return(is_genuine_lead_checks(client_ip, lead_data, outcome.data))
    ELSE IF ~flag_set(outcome.data, "success") THEN
        Return(LeadVerificationResponse(FALSE,
            PREFIX_VALIDATION_FAILED
                \o dict_get(outcome.data, "message", DEFAULT_ERROR_MESSAGE),
            [client_ip |-> client_ip, ipqs_response |-> outcome.data]))
    ELSE Return(is_genuine_lead_checks(client_ip, lead_data, outcome.data))
\* the handler from the return (or raise) of the lookup to its end
is_genuine_lead_after_lookup(client_ip, lead_data, outcome) ==
    IF outcome.kind = "raise" THEN
        IF is_timeout(outcome.exc) THEN
            Return(LeadVerificationResponse(FALSE, REASON_TIMED_OUT,
                [client_ip |-> client_ip]))
        ELSE IF is_request_exception(outcome.exc) THEN
            Return(LeadVerificationResponse(FALSE, REASON_REQUEST_EXCEPTION,
                [client_ip |-> client_ip, error |-> outcome.exc]))
        ELSE Raise(outcome.exc)
    ELSE IF ~outcome.is_object THEN
        \* ipqs_data.get on a value that is no dict
        Raise("AttributeError")
    ELSE IF ~flag_set(outcome.data, "success") THEN
        Return(LeadVerificationResponse(FALSE,
            PREFIX_VALIDATION_FAILED
                \o dict_get(outcome.data, "message", DEFAULT_ERROR_MESSAGE),
            [client_ip |-> client_ip, ipqs_response |-> outcome.data]))
    ELSE Return(is_genuine_lead_checks(client_ip, lead_data, outcome.data))

\* ---------------------------------------------------------------- state
VARIABLES
    IP_QUALITY_SCORE_API_KEY,  \* the credential read at import
    loop,         \* the request whose coroutine the event loop is running, 0 if none
    pc,           \* per request: "idle", "queued", "lookup", "done"
    client_ip,    \* per request: request.client.host
    lead_data,    \* per request: the parsed body
    calls,        \* per request: the outbound lookups made so far
    ipqs,         \* per request: what the lookup came back with
    response,     \* per request: the HTTP response
    ns_pc, ns_origin, ns_in, ns_out   \* one application of normalize_state
vars ==
    <<IP_QUALITY_SCORE_API_KEY, loop, pc, client_ip, lead_data, calls, ipqs,
      response, ns_pc, ns_origin, ns_in, ns_out>>
ns_vars == <<ns_pc, ns_origin, ns_in, ns_out>>

Reqs == 1..NReq
no_lead == [submitted_state |-> <<>>, time_on_page |-> 0, user_agent |-> <<>>]

InitRequests ==
    /\ loop = 0
    /\ pc = [r \in Reqs |-> "idle"]
    /\ client_ip = [r \in Reqs |-> <<>>]
    /\ lead_data = [r \in Reqs |-> no_lead]
    /\ calls = [r \in Reqs |-> <<>>]
    /\ ipqs = [r \in Reqs |-> [kind |-> "none"]]
    /\ response = [r \in Reqs |-> [kind |-> "none"]]
InitNormIdle ==
    /\ ns_pc = "off"
    /\ ns_origin = None
    /\ ns_in = <<>>
    /\ ns_out = None

\* a request arrives at the server; its coroutine waits for the event loop
Accept(r, ips, leads) ==
    /\ pc[r] = "idle"
    /\ \E ip \in ips, lead \in leads :
        /\ client_ip' = [client_ip EXCEPT ![r] = ip]
        /\ lead_data' = [lead_data EXCEPT ![r] = lead]
    /\ pc' = [pc EXCEPT ![r] = "queued"]
    /\ UNCHANGED <<IP_QUALITY_SCORE_API_KEY, loop, calls, ipqs, response, ns_vars>>

\* the event loop runs the coroutine, which has no await: it keeps the loop
\* until it returns, the synchronous requests.get included
Begin(r) ==
    /\ pc[r] = "queued"
    /\ loop = 0
    /\ LET step == is_genuine_lead_before_lookup(client_ip[r], lead_data[r],
                                                 IP_QUALITY_SCORE_API_KEY)
       IN IF step.kind = "return"
          THEN /\ response' = [response EXCEPT ![r] =
                                  [kind |-> "verdict", body |-> step.value]]
               /\ pc' = [pc EXCEPT ![r] = "done"]
               /\ UNCHANGED <<loop, calls>>
          ELSE /\ calls' = [calls EXCEPT ![r] = Append(@, step.request)]
               /\ pc' = [pc EXCEPT ![r] = "lookup"]
               /\ loop' = r
               /\ UNCHANGED response
    /\ UNCHANGED <<IP_QUALITY_SCORE_API_KEY, client_ip, lead_data, ipqs, ns_vars>>

\* (mutant) a timed-out lookup is attempted a second time
LookupReturnsWithRetry(r, outcomes) ==
    /\ pc[r] = "lookup"
    /\ loop = r
    /\ \E outcome \in outcomes :
        IF outcome.kind = "raise" /\ is_timeout(outcome.exc) /\ Len(calls[r]) < 2
        THEN /\ calls' = [calls EXCEPT ![r] = Append(@, Head(@))]
             /\ UNCHANGED <<pc, loop, ipqs, response>>
        ELSE LET step == is_genuine_lead_after_lookup(client_ip[r], lead_data[r], outcome)
             IN /\ ipqs' = [ipqs EXCEPT ![r] = outcome]
                /\ response' = [response EXCEPT ![r] =
                       IF step.kind = "return"
                       THEN [kind |-> "verdict", body |-> step.value]
                       ELSE [kind |-> "error", exc |-> step.exc]]
                /\ pc' = [pc EXCEPT ![r] = "done"]
                /\ loop' = 0
                /\ UNCHANGED calls
    /\ UNCHANGED <<IP_QUALITY_SCORE_API_KEY, client_ip, lead_data, ns_vars>>
\* requests.get returns or raises, and the coroutine runs to its end
LookupReturns(r, outcomes) ==
    /\ pc[r] = "lookup"
    /\ loop = r
    /\ \E outcome \in outcomes :
        LET step == is_genuine_lead_after_lookup(client_ip[r], lead_data[r], outcome)
        IN /\ ipqs' = [ipqs EXCEPT ![r] = outcome]
           /\ response' = [response EXCEPT ![r] =
                  IF step.kind = "return"
                  THEN [kind |-> "verdict", body |-> step.value]
                  ELSE [kind |-> "error", exc |-> step.exc]]
    /\ pc' = [pc EXCEPT ![r] = "done"]
    /\ loop' = 0
    /\ UNCHANGED <<IP_QUALITY_SCORE_API_KEY, client_ip, lead_data, calls, ns_vars>>

\* ---------------------------------------------------------------- one request
Init ==
    /\ IP_QUALITY_SCORE_API_KEY \in API_KEYS
    /\ InitRequests
    /\ InitNormIdle
Next ==
    \/ Accept(1, CLIENT_IPS, LEADS)
    \/ Begin(1)
    \/ LookupReturns(1, OUTCOMES)
Spec == Init /\ [][Next]_vars

\* ---------------------------------------------------------------- the server
\* several requests on the one event loop of `uvicorn main:app`
SERVER_KEYS == {None, <<"s","3","c","r","3","t">>}
SERVER_LEADS ==
    {lead \in LEADS :
        /\ lead.submitted_state \in {<<"N","Y">>, <<"A","t","l","a","n","t","i","s">>}
        /\ lead.time_on_page \in {0, MaxTime}}
SERVER_OUTCOMES ==
    { [kind |-> "raise", exc |-> "ReadTimeout"],
      [kind |-> "json", is_object |-> FALSE, data |-> <<>>],
      [kind |-> "json", is_object |-> TRUE,
       data |-> [success |-> TRUE, proxy |-> TRUE, country_code |-> COUNTRY_US]],
      [kind |-> "json", is_object |-> TRUE,
       data |-> [success |-> TRUE, proxy |-> FALSE, vpn |-> FALSE, tor |-> FALSE,
                 country_code |-> COUNTRY_US,
                 region |-> <<"N","e","w"," ","Y","o","r","k">>,
                 fraud_score |-> 5]] }
ServerInit ==
    /\ IP_QUALITY_SCORE_API_KEY \in SERVER_KEYS
    /\ InitRequests
    /\ InitNormIdle
ServerNext ==
    \E r \in Reqs :
        \/ Accept(r, CLIENT_IPS, SERVER_LEADS)
        \/ Begin(r)
        \/ LookupReturns(r, SERVER_OUTCOMES)
ServerSpec == ServerInit /\ [][ServerNext]_vars

\* ---------------------------------------------------------------- normalize_state alone
CaseMasks == [1..MaskLen -> BOOLEAN]
\* s with character i in upper case where the mask, repeated, says so
apply_case(s, mask) ==
    IF s = <<>> THEN <<>>
    ELSE [i \in 1..Len(s) |->
            IF mask[((i - 1) % MaskLen) + 1] THEN upper_char(s[i])
            ELSE lower_char(s[i])]
\* s in lower case but for character i
one_upper(s, i) ==
    [j \in 1..Len(s) |-> IF j = i THEN upper_char(s[j]) ELSE lower_char(s[j])]
\* the spellings of a token that differ in case only: the token as given, the
\* cyclic patterns, and a single capital at each place
CaseVariants(token) ==
    {token} \cup {apply_case(token, mask) : mask \in CaseMasks}
        \cup {one_upper(token, i) : i \in 1..Len(token)}
PAD_CHARS == {" ", "\t"}
Pads == UNION {[1..n -> PAD_CHARS] : n \in 0..MaxPad}
UNKNOWN_TOKENS ==
    { <<>>,
      <<"A","t","l","a","n","t","i","s">>,
      <<"N"," ","Y">>,
      <<"N","e","w"," "," ","Y","o","r","k">>,
      <<"N","e","w","\t","Y","o","r","k">>,
      <<"x","x">>,
      <<"C","a","l","i","f","o","r","n","i">>,
      <<"N","Y","C">>,
      <<"P","u","e","r","t","o"," ","R","i","c","o">>,
      <<"P","R">> }
NormInit ==
    /\ IP_QUALITY_SCORE_API_KEY = None
    /\ InitRequests
    /\ ns_pc = "ready"
    /\ ns_out = None
    /\ \E origin \in (DOMAIN US_STATE_MAP) \cup {None} :
        /\ ns_origin = origin
        /\ \E token \in (IF origin = None THEN UNKNOWN_TOKENS
                         ELSE {origin, US_STATE_MAP[origin]}) :
            \E spelling \in CaseVariants(token), left \in Pads, right \in Pads :
                ns_in = left \o spelling \o right
Normalize ==
    /\ ns_pc = "ready"
    /\ ns_out' = normalize_state(ns_in)
    /\ ns_pc' = "done"
    /\ UNCHANGED <<IP_QUALITY_SCORE_API_KEY, loop, pc, client_ip, lead_data,
                   calls, ipqs, response, ns_origin, ns_in>>
NormNext == Normalize
NormSpec == NormInit /\ [][NormNext]_vars

\* ================================================================ properties
Done(r) == pc[r] = "done"
Verdict(r) == response[r].kind = "verdict"
Negative(r, reason) ==
    /\ Verdict(r)
    /\ response[r].body.is_genuine = FALSE
    /\ response[r].body.reason = reason
\* the lookup of request r came back with a JSON object
GotObject(r) == ipqs[r].kind = "json" /\ ipqs[r].is_object
Has(d, k) == k \in DOMAIN d
Flagged(d, k) == Has(d, k) /\ d[k]
AnyFlag(d) == Flagged(d, "proxy") \/ Flagged(d, "vpn") \/ Flagged(d, "tor")
Succeeded(d) == Has(d, "success") /\ d.success
FromUS(d) == Has(d, "country_code") /\ d.country_code = <<"U","S">>
CredentialMissing ==
    IP_QUALITY_SCORE_API_KEY \in {None, <<>>, PLACEHOLDER_API_KEY}
EndsWith(s, suffix) ==
    /\ Len(s) >= Len(suffix)
    /\ SubSeq(s, Len(s) - Len(suffix) + 1, Len(s)) = suffix
StartsWith(s, prefix) ==
    /\ Len(s) >= Len(prefix)
    /\ SubSeq(s, 1, Len(prefix)) = prefix

\* ---- C1
\* C1 as stated: every finished request with time_on_page <= 2 has the negative
\* low-time-on-page verdict, whatever the address, credential, state are.
C1_AsStated ==
    \A r \in Reqs :
        (Done(r) /\ lead_data[r].time_on_page <= 2) => Negative(r, REASON_LOW_TIME)
\* C1 amended: every finished request with a non-empty client address and
\* time_on_page <= 2 has the negative low-time-on-page verdict, whatever the
\* credential and the submitted state are, and no lookup was made for it.
C1_LowTimeWithAddress ==
    \A r \in Reqs :
        (Done(r) /\ client_ip[r] # <<>> /\ lead_data[r].time_on_page <= 2)
            => (Negative(r, REASON_LOW_TIME) /\ calls[r] = <<>>)
C1_Witness ==
    \E r \in Reqs :
        /\ Done(r) /\ client_ip[r] # <<>> /\ lead_data[r].time_on_page = 2
        /\ ~CredentialMissing
        /\ Negative(r, REASON_LOW_TIME)

\* ---- C2
\* the check at which the inputs of request r first fail, in the order address,
\* time, credential, lookup (timeout, transport, non-success), anonymization,
\* country, state, geolocation; "none" if every check passes
EarliestFailingCheck(r) ==
    LET d == ipqs[r].data IN
    IF client_ip[r] = <<>> THEN "address"
    ELSE IF lead_data[r].time_on_page <= 2 THEN "time"
    ELSE IF CredentialMissing THEN "credential"
    ELSE IF ipqs[r].kind = "raise" /\ ipqs[r].exc \in {"ConnectTimeout", "ReadTimeout"}
        THEN "timeout"
    ELSE IF ipqs[r].kind = "raise" THEN "transport"
    ELSE IF ~Succeeded(d) THEN "non_success"
    ELSE IF AnyFlag(d) THEN "anonymization"
    ELSE IF ~FromUS(d) THEN "country"
    ELSE IF normalize_state(lead_data[r].submitted_state) = None THEN "state"
    ELSE IF ~Has(d, "region") \/ d.region = <<>>
            \/ normalize_state(d.region) # normalize_state(lead_data[r].submitted_state)
        THEN "geolocation"
    ELSE "none"
\* the check a reason belongs to
CheckOfReason(reason) ==
    IF reason = REASON_NO_CLIENT_IP THEN "address"
    ELSE IF reason = REASON_LOW_TIME THEN "time"
    ELSE IF reason = REASON_NOT_CONFIGURED THEN "credential"
    ELSE IF reason = REASON_TIMED_OUT THEN "timeout"
    ELSE IF reason = REASON_REQUEST_EXCEPTION THEN "transport"
    ELSE IF StartsWith(reason, PREFIX_VALIDATION_FAILED) THEN "non_success"
    ELSE IF EndsWith(reason, SUFFIX_DETECTED) THEN "anonymization"
    ELSE IF reason = REASON_NOT_US THEN "country"
    ELSE IF reason = REASON_INVALID_STATE THEN "state"
    ELSE IF reason = REASON_GEO_MISMATCH THEN "geolocation"
    ELSE IF reason = REASON_PASSED THEN "none"
    ELSE "unknown"
\* C2: the reason a request returns is the reason of the earliest check, in the
\* fixed order, that its inputs fail; it is negative exactly when some check
\* fails; later checks do not show.
C2_EarliestFailingCheckDecides ==
    \A r \in Reqs :
        (Done(r) /\ Verdict(r)) =>
            /\ CheckOfReason(response[r].body.reason) = EarliestFailingCheck(r)
            /\ response[r].body.is_genuine = (EarliestFailingCheck(r) = "none")
\* a non-success body with proxy = true gives the IP-validation-failed reason
C2_Witness ==
    \E r \in Reqs :
        /\ Done(r) /\ GotObject(r)
        /\ ~Succeeded(ipqs[r].data) /\ Flagged(ipqs[r].data, "proxy")
        /\ ~FromUS(ipqs[r].data)
        /\ normalize_state(lead_data[r].submitted_state) = None
        /\ Verdict(r)
        /\ StartsWith(response[r].body.reason, PREFIX_VALIDATION_FAILED)

\* ---- C3
\* every condition of a genuine lead holds of request r
AllChecksHold(r) ==
    /\ client_ip[r] # <<>>
    /\ lead_data[r].time_on_page > 2
    /\ ~CredentialMissing
    /\ GotObject(r)
    /\ LET d == ipqs[r].data IN
        /\ Succeeded(d)
        /\ ~AnyFlag(d)
        /\ FromUS(d)
        /\ normalize_state(lead_data[r].submitted_state) # None
        /\ Has(d, "region")
        /\ normalize_state(d.region) = normalize_state(lead_data[r].submitted_state)
\* C3: a finished request has is_genuine = true if and only if every condition
\* holds, and is_genuine = false in every other case.
C3_GenuineIffAllChecksHold ==
    \A r \in Reqs :
        Done(r) =>
            /\ Verdict(r)
            /\ response[r].body.is_genuine = AllChecksHold(r)
\* what remains of C3 on the requests that do get a verdict
C3_OnVerdicts ==
    \A r \in Reqs :
        (Done(r) /\ Verdict(r)) => response[r].body.is_genuine = AllChecksHold(r)

\* ---- C4
\* C4: with a present address and time_on_page > 2, an absent, empty or
\* placeholder credential gives the negative service-not-configured verdict,
\* and the lookup is never invoked.
C4_FailClosedWithoutCredential ==
    \A r \in Reqs :
        /\ CredentialMissing => calls[r] = <<>> /\ pc[r] # "lookup"
        /\ (Done(r) /\ CredentialMissing /\ client_ip[r] # <<>>
                /\ lead_data[r].time_on_page > 2)
            => Negative(r, REASON_NOT_CONFIGURED)
C4_Witness ==
    \E r \in Reqs :
        /\ Done(r) /\ IP_QUALITY_SCORE_API_KEY = PLACEHOLDER_API_KEY
        /\ client_ip[r] # <<>> /\ lead_data[r].time_on_page > 2
        /\ Negative(r, REASON_NOT_CONFIGURED)

\* ---- C5
\* C5: a request that made the lookup always ends in a verdict, never in an
\* escaped exception; a timeout gives the timed-out reason and any other
\* failure of the exchange the request-exception reason.
C5_LookupFailuresBecomeVerdicts ==
    \A r \in Reqs :
        (Done(r) /\ calls[r] # <<>>) =>
            /\ Verdict(r)
            /\ (ipqs[r].kind = "raise" /\ ipqs[r].exc \in {"ConnectTimeout", "ReadTimeout"})
                => Negative(r, REASON_TIMED_OUT)
            /\ (ipqs[r].kind = "raise" /\ ipqs[r].exc \notin {"ConnectTimeout", "ReadTimeout"})
                => Negative(r, REASON_REQUEST_EXCEPTION)
\* what holds of the failures the requests library raises
C5_RaisedFailures ==
    \A r \in Reqs :
        (Done(r) /\ ipqs[r].kind = "raise") =>
            IF ipqs[r].exc \in {"ConnectTimeout", "ReadTimeout"}
            THEN Negative(r, REASON_TIMED_OUT)
            ELSE Negative(r, REASON_REQUEST_EXCEPTION)

\* ---- C6
EarlyCheckFails(r) ==
    \/ client_ip[r] = <<>>
    \/ lead_data[r].time_on_page <= 2
    \/ CredentialMissing
\* C6: a request makes the lookup at most once: not at all when the address,
\* time or credential check fails, once otherwise; after a timeout, an error
\* or a non-success answer it has its verdict and has made no second attempt.
C6_AtMostOneLookup ==
    \A r \in Reqs :
        /\ Len(calls[r]) <= 1
        /\ pc[r] \in {"idle", "queued"} => calls[r] = <<>>
        /\ pc[r] = "lookup" => Len(calls[r]) = 1
        /\ Done(r) => Len(calls[r]) = (IF EarlyCheckFails(r) THEN 0 ELSE 1)
        /\ (Done(r) /\ (ipqs[r].kind = "raise" \/ (GotObject(r) /\ ~Succeeded(ipqs[r].data))))
            => (Verdict(r) /\ ~response[r].body.is_genuine /\ Len(calls[r]) = 1)
C6_Witness ==
    \E r \in Reqs :
        /\ Done(r) /\ ipqs[r].kind = "raise" /\ ipqs[r].exc = "ReadTimeout"
        /\ Negative(r, REASON_TIMED_OUT)
        /\ Len(calls[r]) = 1

\* ---- C7
\* C7: every case variant, with any surrounding whitespace, of a table entry's
\* abbreviation or full name normalizes to that entry's lowercase full name;
\* every string that after trimming and lowercasing is neither a known full
\* name nor a known abbreviation gives None.
C7_NormalizeCanonical ==
    ns_pc = "done" =>
        /\ ns_origin # None => ns_out = lower(US_STATE_MAP[ns_origin])
        /\ (lower(strip(ns_in)) \notin
                US_STATE_FULL_NAMES_LOWER \cup US_STATE_ABBREVIATIONS_LOWER)
            => ns_out = None
        /\ ns_origin = None => ns_out = None
\* " nEw yOrK\t" came out as "new york"
C7_Witness ==
    /\ ns_pc = "done"
    /\ ns_origin = <<"N","Y">>
    /\ Len(ns_in) = 10 /\ ns_in[1] \in WHITESPACE /\ ns_in[10] \in WHITESPACE
    /\ ns_in[3] = "E" /\ ns_in[2] = "n"
    /\ ns_out = <<"n","e","w"," ","y","o","r","k">>

\* ---- C8
\* the verdict of r is the one the same answer gives with every absent flag
\* written out as false
SameVerdictWithFlagsFalse(r) ==
    LET d == ipqs[r].data
        filled == [k \in (DOMAIN d) \cup {"proxy", "vpn", "tor"} |->
                      IF k \in DOMAIN d THEN d[k] ELSE FALSE]
        other == is_genuine_lead_after_lookup(client_ip[r], lead_data[r],
                     [kind |-> "json", is_object |-> TRUE, data |-> filled])
    IN /\ other.kind = "return"
       /\ other.value.is_genuine = response[r].body.is_genuine
       /\ other.value.reason = response[r].body.reason
C8_Common(r) ==
    LET d == ipqs[r].data IN
    /\ Verdict(r)
    /\ ~Has(d, "success") =>
         /\ ~response[r].body.is_genuine
         /\ StartsWith(response[r].body.reason, PREFIX_VALIDATION_FAILED)
    /\ (Succeeded(d) /\ ~AnyFlag(d)) =>
         ~EndsWith(response[r].body.reason, SUFFIX_DETECTED)
    /\ SameVerdictWithFlagsFalse(r)
    /\ (Succeeded(d) /\ ~AnyFlag(d) /\ ~Has(d, "country_code")) =>
         Negative(r, REASON_NOT_US)
    /\ (Succeeded(d) /\ ~AnyFlag(d) /\ FromUS(d)
            /\ normalize_state(lead_data[r].submitted_state) # None
            /\ (~Has(d, "region") \/ normalize_state(d.region) = None)) =>
         Negative(r, REASON_GEO_MISMATCH)
\* C8 as stated: with any fields absent from a JSON object the handler returns
\* a verdict, each absent field read as unknown/false at its check, and a
\* genuine verdict has no field absent other than fraud_score and message.
C8_AsStated ==
    \A r \in Reqs :
        (Done(r) /\ GotObject(r)) =>
            /\ C8_Common(r)
            /\ response[r].body.is_genuine =>
                 (IPQS_KEYS \ {"fraud_score", "message"}) \subseteq DOMAIN ipqs[r].data
\* C8 amended: as stated, but a genuine verdict has no field absent other than
\* fraud_score, message and the flags proxy, vpn, tor (an absent flag counts as
\* not detected, so it does not stand in the way of a genuine verdict).
C8_AbsentFieldsAreUnknown ==
    \A r \in Reqs :
        (Done(r) /\ GotObject(r)) =>
            /\ C8_Common(r)
            /\ response[r].body.is_genuine =>
                 {"success", "country_code", "region"} \subseteq DOMAIN ipqs[r].data
C8_Witness ==
    \E r \in Reqs :
        /\ Done(r) /\ GotObject(r)
        /\ DOMAIN ipqs[r].data = {"success", "country_code"}
        /\ Succeeded(ipqs[r].data) /\ FromUS(ipqs[r].data)
        /\ normalize_state(lead_data[r].submitted_state) # None
        /\ Negative(r, REASON_GEO_MISMATCH)

\* ---- C9
\* C9: while one request waits on its lookup, any other request that has
\* arrived can take its next step.
C9_PendingLookupDoesNotBlock ==
    \A r \in Reqs, q \in Reqs :
        (pc[r] = "lookup" /\ q # r /\ pc[q] = "queued") => ENABLED Begin(q)

\* ---- C10
ExpectedDetection(d) ==
    IF Flagged(d, "proxy") THEN
        IF Flagged(d, "vpn") THEN
            IF Flagged(d, "tor")
            THEN <<"P","r","o","x","y",","," ","v","p","n",","," ","t","o","r"," ","d","e","t","e","c","t","e","d",".">>
            ELSE <<"P","r","o","x","y",","," ","v","p","n"," ","d","e","t","e","c","t","e","d",".">>
        ELSE IF Flagged(d, "tor")
            THEN <<"P","r","o","x","y",","," ","t","o","r"," ","d","e","t","e","c","t","e","d",".">>
            ELSE <<"P","r","o","x","y"," ","d","e","t","e","c","t","e","d",".">>
    ELSE IF Flagged(d, "vpn") THEN
        IF Flagged(d, "tor")
        THEN <<"V","p","n",","," ","t","o","r"," ","d","e","t","e","c","t","e","d",".">>
        ELSE <<"V","p","n"," ","d","e","t","e","c","t","e","d",".">>
    ELSE <<"T","o","r"," ","d","e","t","e","c","t","e","d",".">>
\* C10: when the lookup succeeds and a flag is set the verdict is negative,
\* whatever country, region and submitted state are, and its reason names
\* exactly the set flags in the order proxy, vpn, tor.
C10_DetectedFlagsNamed ==
    \A r \in Reqs :
        (Done(r) /\ GotObject(r) /\ Succeeded(ipqs[r].data) /\ AnyFlag(ipqs[r].data))
            => Negative(r, ExpectedDetection(ipqs[r].data))
C10_Witness ==
    \E r \in Reqs :
        /\ Done(r) /\ GotObject(r) /\ Succeeded(ipqs[r].data)
        /\ Flagged(ipqs[r].data, "proxy") /\ Flagged(ipqs[r].data, "tor")
        /\ ~Flagged(ipqs[r].data, "vpn")
        /\ FromUS(ipqs[r].data)
        /\ AllChecksHold(r) = FALSE
        /\ Negative(r, <<"P","r","o","x","y",","," ","t","o","r"," ","d","e","t","e","c","t","e","d",".">>)
====
